---- MODULE Spec2Model ----
(***************************************************************************)
(* postgrest-py, asynchronous request builder                              *)
(* (src/postgrest/_async/request_builder.py).                              *)
(*                                                                         *)
(* A chain is created by a verb call on AsyncRequestBuilder (or by         *)
(* constructing an AsyncQueryFactory directly), accumulates params and     *)
(* headers, and is executed: the factory picks a strategy from the         *)
(* headers, the strategy calls session.request (the one suspension point)  *)
(* and turns the transport's result into an APIResponse or an exception.   *)
(*                                                                         *)
(* Strings that the code only stores or compares are TLA+ strings.         *)
(* Strings the code computes on are sequences of symbols: the marker       *)
(* header's value (str.lower) is a sequence of characters, an error's      *)
(* `details` (substring test) is a sequence of words.                      *)
(***************************************************************************)
EXTENDS Integers, Sequences, FiniteSets, TLC

VARIABLES
    pc,             \* chain -> "none" | "built" | "awaiting" | "done"
    kind,           \* chain -> class of the chain object
    ref,            \* chain -> the pending-request object the chain holds
    pending,        \* heap: object id -> [method, headers, params, json] or Free
    inflight,       \* chain -> the request handed to session.request, or NoRequest
    strategy,       \* chain -> strategy class picked by request_builder
    transport,      \* chain -> what session.request produced, or NoTransport
    outcome,        \* chain -> what execute() returned or raised, or NoOutcome
    nSent,          \* chain -> number of session.request calls of the execution
    sessionParams,  \* session.params, the HTTP session's default query parameters
    own             \* history: chain -> the request as the chain's own calls made it

vars == <<pc, kind, ref, pending, inflight, strategy, transport, outcome, nSent,
          sessionParams, own>>

----------------------------------------------------------------------------
(* Bounds *)

\* Most filter calls on one chain.
MaxFilters == 2

\* Most words before and most words after the core of an error's details.
MaxPad == 1

\* The chains that live at the same time, and the heap cells they can hold.
Chains == {"c1", "c2"}
ObjIds == {"o1", "o2"}
NoObj == "null"

----------------------------------------------------------------------------
(* Values *)

None == "None"

SINGLE_ACCEPT == "application/vnd.pgrst.object+json"
ACCEPT == "accept"
MARKER == "x-maybesingle"
PREFER == "prefer"

\* httpx.Headers: a mapping whose keys are case-insensitive; the keys are kept
\* in lower case and a key is present iff it is in the mapping's domain.
EmptyHeaders == [k \in {} |-> None]

HasHeader(h, k) == k \in DOMAIN h

GetHeader(h, k) == IF k \in DOMAIN h THEN h[k] ELSE None

SetHeader(h, k, v) == [x \in DOMAIN h \cup {k} |-> IF x = k THEN v ELSE h[x]]

\* str.lower() on a sequence of characters.
LowerChar(ch) ==
    CASE ch = "T" -> "t"
      [] ch = "R" -> "r"
      [] ch = "U" -> "u"
      [] ch = "E" -> "e"
      [] ch = "F" -> "f"
      [] OTHER -> ch

Lower(s) == [i \in DOMAIN s |-> LowerChar(s[i])]

TrueLiteral == <<"t", "r", "u", "e">>

\* The literal "Results contain 0 rows", one symbol per word.
ZeroRowsLiteral == <<"Results", "contain", "0", "rows">>

\* Python's `needle in haystack` on strings.
Contains(haystack, needle) ==
    \E i \in 0..(Len(haystack) - Len(needle)) :
        SubSeq(haystack, i + 1, i + Len(needle)) = needle

----------------------------------------------------------------------------
(* Request assembly: the per-verb functions of base_request_builder, which *)
(* each return a new (method, params, headers, json) tuple.                *)

Tuple(m, p, h, j) == [method |-> m, params |-> p, headers |-> h, json |-> j]

\* The Prefer header is its tokens in order; the wire form joins them by ",".
PreferTokens(count, returning, resolution) ==
    (IF count = None THEN <<>> ELSE <<"count=exact">>)
    \o (IF returning = None THEN <<>> ELSE <<"return=representation">>)
    \o (IF resolution = None THEN <<>> ELSE <<resolution>>)

WithPrefer(tokens) ==
    IF tokens = <<>> THEN EmptyHeaders ELSE SetHeader(EmptyHeaders, PREFER, tokens)

pre_select(columns, count) ==
    Tuple("GET", << <<"select", columns>> >>,
          WithPrefer(PreferTokens(count, None, None)), None)

pre_insert(json, count, returning, upsert) ==
    Tuple("POST", <<>>,
          WithPrefer(PreferTokens(count, returning,
                                  IF upsert THEN "resolution=merge-duplicates" ELSE None)),
          json)

pre_upsert(json, count, returning, ignore_duplicates) ==
    Tuple("POST", <<>>,
          WithPrefer(PreferTokens(count, returning,
                                  IF ignore_duplicates THEN "resolution=ignore-duplicates"
                                                       ELSE "resolution=merge-duplicates")),
          json)

pre_update(json, count, returning) ==
    Tuple("PATCH", <<>>, WithPrefer(PreferTokens(count, returning, None)), json)

pre_delete(count, returning) ==
    Tuple("DELETE", <<>>, WithPrefer(PreferTokens(count, returning, None)), None)

----------------------------------------------------------------------------
(* Inputs of the verb calls *)

Columns == "a,b"
CountInputs == {None, "exact"}
Rows == {"row1", "row2"}
Returning == "representation"
Filters == { <<"c", "eq.d">>, <<"e", "gt.1">> }
Methods == {"GET", "POST", "PATCH", "DELETE"}

\* Values a caller can put in the marker header.
MarkerInputs ==
    { <<"t", "r", "u", "e">>, <<"T", "r", "u", "e">>, <<"T", "R", "U", "E">>,
      <<"F", "a", "l", "s", "e">>, <<"t", "r", "u">>, <<>> }

AcceptInputs == {"application/json", SINGLE_ACCEPT}

\* Headers a caller can hand to AsyncQueryFactory's constructor.
HeaderInputs ==
    {EmptyHeaders}
    \cup {SetHeader(EmptyHeaders, ACCEPT, a) : a \in AcceptInputs}
    \cup {SetHeader(EmptyHeaders, MARKER, m) : m \in MarkerInputs}
    \cup {SetHeader(SetHeader(EmptyHeaders, ACCEPT, a), MARKER, m) :
              a \in AcceptInputs, m \in MarkerInputs}

----------------------------------------------------------------------------
(* The heap of pending requests and the chains that hold them *)

Free == Tuple(None, <<>>, EmptyHeaders, None)
NoRequest == Tuple(None, <<>>, EmptyHeaders, None)
NoTransport == [kind |-> "none"]
NoOutcome == [kind |-> "none"]

FilterKinds == {"AsyncSelectRequestBuilder", "AsyncFilterRequestBuilder"}

\* The pending request chain c holds.
Pending(c) == pending[ref[c]]

\* An object no other chain holds.
FreshObj(c) == CHOOSE o \in ObjIds : \A d \in Chains \ {c} : ref[d] # o

\* The object every chain of the builder would hold if the builder kept one
\* pending request for all of its chains.
SharedObj(c) ==
    IF \E d \in Chains \ {c} : ref[d] # NoObj
    THEN CHOOSE o \in ObjIds : \E d \in Chains \ {c} : ref[d] = o
    ELSE FreshObj(c)

\* A chain object of class cls is constructed over the tuple t, held in
\* object o, and bound to the name c.
Bind(c, cls, t, o) ==
    /\ pc' = [pc EXCEPT ![c] = "built"]
    /\ kind' = [kind EXCEPT ![c] = cls]
    /\ ref' = [ref EXCEPT ![c] = o]
    /\ pending' = [pending EXCEPT ![o] = t]
    /\ own' = [own EXCEPT ![c] = t]
    /\ UNCHANGED <<inflight, strategy, transport, outcome, nSent, sessionParams>>

BuildShared(c, cls, t) == Bind(c, cls, t, SharedObj(c))

\* A verb method of AsyncRequestBuilder: the tuple of the pre_ function goes
\* to a new chain object.
Build(c, cls, t) == Bind(c, cls, t, FreshObj(c))

Select(c, count) ==
    /\ pc[c] = "none"
    /\ Build(c, "AsyncSelectRequestBuilder", pre_select(Columns, count))

Insert(c, json, upsert) ==
    /\ pc[c] = "none"
    /\ Build(c, "AsyncQueryFactory", pre_insert(json, None, Returning, upsert))

Upsert(c, json, ignore_duplicates) ==
    /\ pc[c] = "none"
    /\ Build(c, "AsyncQueryFactory", pre_upsert(json, None, Returning, ignore_duplicates))

Update(c, json) ==
    /\ pc[c] = "none"
    /\ Build(c, "AsyncFilterRequestBuilder", pre_update(json, None, Returning))

Delete(c) ==
    /\ pc[c] = "none"
    /\ Build(c, "AsyncFilterRequestBuilder", pre_delete(None, Returning))

\* AsyncQueryFactory(session, path, http_method, headers, params, json) called
\* directly, with headers of the caller's choice.
Construct(c, m, h) ==
    /\ pc[c] = "none"
    /\ Bind(c, "AsyncQueryFactory", Tuple(m, <<>>, h, None), FreshObj(c))

----------------------------------------------------------------------------
(* The builder chain: filters and the single-row toggles *)

NumFilters(c) ==
    Cardinality({i \in DOMAIN Pending(c).params : Pending(c).params[i][1] # "select"})

\* BaseFilterRequestBuilder.filter: one more query parameter, after the others.
Filter(c, f) ==
    /\ pc[c] = "built"
    /\ kind[c] \in FilterKinds
    /\ NumFilters(c) < MaxFilters
    /\ pending' = [pending EXCEPT ![ref[c]].params = Append(@, f)]
    /\ own' = [own EXCEPT ![c].params = Append(@, f)]
    /\ UNCHANGED <<pc, kind, ref, inflight, strategy, transport, outcome, nSent,
                   sessionParams>>

\* BaseSelectRequestBuilder.single: the Accept header is overwritten.
Single(c) ==
    /\ pc[c] = "built"
    /\ kind[c] = "AsyncSelectRequestBuilder"
    /\ pending' = [pending EXCEPT ![ref[c]].headers = SetHeader(@, ACCEPT, SINGLE_ACCEPT)]
    /\ own' = [own EXCEPT ![c].headers = SetHeader(@, ACCEPT, SINGLE_ACCEPT)]
    /\ UNCHANGED <<pc, kind, ref, inflight, strategy, transport, outcome, nSent,
                   sessionParams>>

\* BaseSelectRequestBuilder.maybe_single: Accept as for single, and the marker.
MaybeSingle(c) ==
    /\ pc[c] = "built"
    /\ kind[c] = "AsyncSelectRequestBuilder"
    /\ pending' = [pending EXCEPT ![ref[c]].headers =
                      SetHeader(SetHeader(@, ACCEPT, SINGLE_ACCEPT),
                                MARKER, <<"T", "r", "u", "e">>)]
    /\ own' = [own EXCEPT ![c].headers =
                  SetHeader(SetHeader(@, ACCEPT, SINGLE_ACCEPT),
                            MARKER, <<"T", "r", "u", "e">>)]
    /\ UNCHANGED <<pc, kind, ref, inflight, strategy, transport, outcome, nSent,
                   sessionParams>>

----------------------------------------------------------------------------
(* The query factory: the strategy is picked from the headers *)

is_single(h) == GetHeader(h, ACCEPT) = SINGLE_ACCEPT

is_maybe_single_marker_only(h) ==
    HasHeader(h, MARKER) /\ Lower(h[MARKER]) = TrueLiteral

is_maybe_single_exact_case(h) ==
    is_single(h) /\ HasHeader(h, MARKER) /\ h[MARKER] = TrueLiteral

is_maybe_single(h) ==
    LET cond == HasHeader(h, MARKER) /\ Lower(h[MARKER]) = TrueLiteral
    IN  is_single(h) /\ cond

request_builder(h) ==
    IF is_maybe_single(h) THEN "AsyncMaybeSingleRequestBuilder"
    ELSE "AsyncQueryRequestBuilder"

RequestMarkerStripped(c) ==
    [method |-> Pending(c).method, json |-> Pending(c).json,
     params |-> Pending(c).params,
     headers |-> [k \in DOMAIN Pending(c).headers \ {MARKER} |-> Pending(c).headers[k]]]

\* What execute() hands to session.request.
Request(c) ==
    [method |-> Pending(c).method, json |-> Pending(c).json,
     params |-> Pending(c).params, headers |-> Pending(c).headers]

\* As Send, but the chain's params are also stored as the session's defaults.
SendKeepingParams(c) ==
    /\ pc[c] = "built"
    /\ pc' = [pc EXCEPT ![c] = "awaiting"]
    /\ strategy' = [strategy EXCEPT ![c] = request_builder(Pending(c).headers)]
    /\ inflight' = [inflight EXCEPT ![c] = Request(c)]
    /\ nSent' = [nSent EXCEPT ![c] = @ + 1]
    /\ sessionParams' = sessionParams \o Pending(c).params
    /\ UNCHANGED <<kind, ref, pending, transport, outcome, own>>

\* execute() up to its suspension point: the strategy object is made and
\* session.request is called once.
Send(c) ==
    /\ pc[c] = "built"
    /\ pc' = [pc EXCEPT ![c] = "awaiting"]
    /\ strategy' = [strategy EXCEPT ![c] = request_builder(Pending(c).headers)]
    /\ inflight' = [inflight EXCEPT ![c] = Request(c)]
    /\ nSent' = [nSent EXCEPT ![c] = @ + 1]
    /\ UNCHANGED <<kind, ref, pending, transport, outcome, sessionParams, own>>

----------------------------------------------------------------------------
(* Responses, the response model and the error model *)

EmptyObject == [k \in {} |-> None]

JNull == [type |-> "null"]
JArray(v) == [type |-> "array", value |-> v]
JObject(o) == [type |-> "object", value |-> o]

Absent == <<>>
Some(n) == <<n>>

Return(data, count, error) ==
    [kind |-> "return", data |-> data, count |-> count, error |-> error]

Raise(exc, error) == [kind |-> "raise", exc |-> exc, error |-> error]

IsHttpResponse(t) == t.kind = "response"

\* httpx Response.json(): the parsed body, or json.JSONDecodeError.
ResponseJson(r) ==
    IF r.body.syntax = "json" THEN [ok |-> TRUE, value |-> r.body.json]
    ELSE [ok |-> FALSE, value |-> JNull]

ErrFields == {"message", "code", "details", "hint"}

\* APIError(error): the four fields the JSON object reports; a field the
\* object lacks stays absent.
APIError(json) ==
    [f \in DOMAIN json.value \cap ErrFields |-> json.value[f]]

\* Count from "Content-Range: <start>-<end>/<total>"; "*" and no header give
\* no count.
CountOf(range) ==
    CASE range = "0-1/2" -> Some(2)
      [] range = "0-0/1" -> Some(1)
      [] OTHER -> Absent

\* APIResponse.from_http_request_response: the envelope of a response, an
\* API error made of the raw body when the body is no JSON, or the model's
\* ValidationError when the parsed body is not acceptable as data.
from_http_request_response(r) ==
    IF ~ResponseJson(r).ok
    THEN Raise("APIError", [message |-> r.body.raw])
    ELSE IF ~r.body.validates
    THEN Raise("ValidationError", EmptyObject)
    ELSE Return(ResponseJson(r).value, CountOf(r.range), JNull)

\* APIResponse.from_dict
from_dict(d) == Return(d.data, d.count, d.error)

\* raise APIError(r.json()): r.json() is evaluated first and may raise.
RaiseAPIError(r) ==
    IF ResponseJson(r).ok THEN Raise("APIError", APIError(ResponseJson(r).value))
    ELSE Raise("JSONDecodeError", EmptyObject)

----------------------------------------------------------------------------
(* The execution strategies, from the transport's result on *)

QueryExecuteOkBelow400(t) ==
    IF ~IsHttpResponse(t) THEN Raise(t.error, EmptyObject)
    ELSE IF 200 <= t.status /\ t.status <= 399
    THEN LET res == from_http_request_response(t)
         IN  IF res.kind = "raise" /\ res.exc = "ValidationError"
             THEN RaiseAPIError(t)
             ELSE res
    ELSE RaiseAPIError(t)

\* AsyncQueryRequestBuilder.execute after session.request: a failure of the
\* call propagates; a response is classified by its status code.
QueryExecute(t) ==
    IF ~IsHttpResponse(t) THEN Raise(t.error, EmptyObject)
    ELSE IF 200 <= t.status /\ t.status <= 299
    THEN LET res == from_http_request_response(t)
         IN  IF res.kind = "raise" /\ res.exc = "ValidationError"
             THEN RaiseAPIError(t)
             ELSE res
    ELSE RaiseAPIError(t)

ZeroRowsExact(e) ==
    /\ "details" \in DOMAIN e
    /\ e.details = ZeroRowsLiteral

\* `e.details and "Results contain 0 rows" in e.details`
ZeroRows(e) ==
    /\ "details" \in DOMAIN e
    /\ e.details # <<>>
    /\ Contains(e.details, ZeroRowsLiteral)

EmptyEnvelope == from_dict([data |-> JNull, error |-> JNull, count |-> Some(0)])

MaybeSingleExecuteAnyError(t) ==
    LET r == QueryExecute(t)
    IN  IF r.kind = "raise" THEN EmptyEnvelope ELSE r

\* AsyncMaybeSingleRequestBuilder.execute: an APIError of the parent's
\* execute is caught; with the zero-rows details the empty envelope is
\* returned, otherwise control reaches `return r` with r never assigned.
MaybeSingleExecute(t) ==
    LET r == QueryExecute(t)
    IN  IF r.kind = "raise" /\ r.exc = "APIError"
        THEN IF ZeroRows(r.error)
             THEN EmptyEnvelope
             ELSE Raise("UnboundLocalError", EmptyObject)
        ELSE r

Execute(cls, t) ==
    IF cls = "AsyncMaybeSingleRequestBuilder" THEN MaybeSingleExecute(t)
    ELSE QueryExecute(t)

\* What session.request raises when the call cannot complete.
TransportFailures == {"ConnectError", "ReadTimeout", "CancelledError"}

\* session.request completes with t and execute() runs to its end.
Complete(c, t) ==
    /\ pc[c] = "awaiting"
    /\ pc' = [pc EXCEPT ![c] = "done"]
    /\ transport' = [transport EXCEPT ![c] = t]
    /\ outcome' = [outcome EXCEPT ![c] = Execute(strategy[c], t)]
    /\ UNCHANGED <<kind, ref, pending, inflight, strategy, nSent, sessionParams, own>>

\* The server's response arrives.
Respond(c, r) ==
    /\ IsHttpResponse(r)
    /\ Complete(c, r)

\* session.request raises: the network, a timeout or a cancellation.
Fail(c, f) ==
    /\ f \in TransportFailures
    /\ Complete(c, [kind |-> "failure", error |-> f])

----------------------------------------------------------------------------
(* What the transport can produce *)

StatusCodes == {100, 199, 200, 204, 299, 300, 304, 404, 406, 500}
SuccessCodes == {200, 204, 299}

Pad(n) == [i \in 1..n |-> "x"]

DetailCores ==
    { <<>>,
      ZeroRowsLiteral,
      SubSeq(ZeroRowsLiteral, 1, 3),
      SubSeq(ZeroRowsLiteral, 2, 4),
      <<"rows", "0", "contain", "Results">>,
      <<"Results", "contain", "x", "0", "rows">> }

DetailInputs ==
    {Pad(p) \o core \o Pad(q) : p \in 0..MaxPad, q \in 0..MaxPad, core \in DetailCores}

ErrorBases ==
    { EmptyObject,
      [message |-> "not found"],
      [message |-> "JSON object requested", code |-> "PGRST116",
       hint |-> "h", statusCode |-> "406"] }

WithDetails(o, d) == [k \in DOMAIN o \cup {"details"} |-> IF k = "details" THEN d ELSE o[k]]

ErrorObjects == ErrorBases \cup {WithDetails(o, d) : o \in ErrorBases, d \in DetailInputs}

JsonBody(j, v) == [syntax |-> "json", json |-> j, validates |-> v, raw |-> "json"]
InvalidBody == [syntax |-> "invalid", json |-> JNull, validates |-> FALSE, raw |-> "<html>"]

Response(st, b, rg) == [kind |-> "response", status |-> st, body |-> b, range |-> rg]

\* Bodies of responses outside 2xx: a JSON error object, or no JSON at all.
ErrorBodies == {JsonBody(JObject(o), TRUE) : o \in ErrorObjects} \cup {InvalidBody}

\* Bodies of 2xx responses: rows, one row, an object the response model does
\* not accept as data, or no JSON at all.
DataBodies ==
    { JsonBody(JArray("rows"), TRUE),
      JsonBody(JObject([a |-> "1"]), TRUE),
      JsonBody(JObject([message |-> "not found"]), FALSE),
      JsonBody(JObject(WithDetails([message |-> "none"], ZeroRowsLiteral)), FALSE),
      InvalidBody }

Ranges == {"absent", "0-1/2", "0-1/*"}

Responses ==
    {Response(st, b, "absent") : st \in StatusCodes \ SuccessCodes, b \in ErrorBodies}
    \cup {Response(st, b, rg) : st \in SuccessCodes, b \in DataBodies, rg \in Ranges}

PairResponses ==
    { Response(200, JsonBody(JArray("rows"), TRUE), "0-1/2"),
      Response(406, JsonBody(JObject(WithDetails([message |-> "none"], ZeroRowsLiteral)),
                             TRUE), "absent") }

----------------------------------------------------------------------------
(* Specifications *)

Init ==
    /\ pc = [c \in Chains |-> "none"]
    /\ kind = [c \in Chains |-> None]
    /\ ref = [c \in Chains |-> NoObj]
    /\ pending = [o \in ObjIds |-> Free]
    /\ inflight = [c \in Chains |-> NoRequest]
    /\ strategy = [c \in Chains |-> None]
    /\ transport = [c \in Chains |-> NoTransport]
    /\ outcome = [c \in Chains |-> NoOutcome]
    /\ nSent = [c \in Chains |-> 0]
    /\ sessionParams = <<>>
    /\ own = [c \in Chains |-> Free]

\* One chain at a time, every header input and every response.
Next ==
    \E c \in {"c1"} :
        \/ \E count \in CountInputs : Select(c, count)
        \/ \E j \in Rows, u \in BOOLEAN : Insert(c, j, u)
        \/ \E j \in Rows, i \in BOOLEAN : Upsert(c, j, i)
        \/ \E j \in Rows : Update(c, j)
        \/ Delete(c)
        \/ \E m \in Methods, h \in HeaderInputs : Construct(c, m, h)
        \/ \E f \in Filters : Filter(c, f)
        \/ Single(c)
        \/ MaybeSingle(c)
        \/ Send(c)
        \/ \E r \in Responses : Respond(c, r)
        \/ \E f \in TransportFailures : Fail(c, f)

Spec == Init /\ [][Next]_vars

\* Two chains of one AsyncRequestBuilder, interleaved.
NextPair ==
    \E c \in Chains :
        \/ \E count \in CountInputs : Select(c, count)
        \/ \E u \in BOOLEAN : Insert(c, "row1", u)
        \/ \E i \in BOOLEAN : Upsert(c, "row1", i)
        \/ Update(c, "row1")
        \/ Delete(c)
        \/ \E f \in Filters : Filter(c, f)
        \/ Single(c)
        \/ MaybeSingle(c)
        \/ Send(c)
        \/ \E r \in PairResponses : Respond(c, r)
        \/ Fail(c, "ReadTimeout")

SpecPair == Init /\ [][NextPair]_vars

----------------------------------------------------------------------------
(* Vocabulary of the properties *)

MAYBE == "AsyncMaybeSingleRequestBuilder"
PLAIN == "AsyncQueryRequestBuilder"

Sent(c) == pc[c] \in {"awaiting", "done"}
Done(c) == pc[c] = "done"

\* The spellings of "true" in either case, letter by letter.
TrueIgnoringCase ==
    { <<a, b, u, e>> : a \in {"t", "T"}, b \in {"r", "R"}, u \in {"u", "U"}, e \in {"e", "E"} }

\* The chain was in maybe-single mode when it was executed.
MaybeSingleMode(c) ==
    /\ Sent(c)
    /\ ACCEPT \in DOMAIN inflight[c].headers
    /\ inflight[c].headers[ACCEPT] = SINGLE_ACCEPT
    /\ MARKER \in DOMAIN inflight[c].headers
    /\ inflight[c].headers[MARKER] \in TrueIgnoringCase

Answered(c) == Done(c) /\ transport[c].kind = "response"

Is2xx(c) == transport[c].status \in 200..299

JsonObjectBody(c) ==
    transport[c].body.syntax = "json" /\ transport[c].body.json.type = "object"

\* The error object of the response body.
BodyError(c) == transport[c].body.json.value

\* The response is the server's zero-rows error.
ZeroRowsResponse(c) ==
    /\ Answered(c) /\ ~Is2xx(c) /\ JsonObjectBody(c)
    /\ "details" \in DOMAIN BodyError(c)
    /\ \E i \in 1..Len(BodyError(c).details) :
          /\ i + 3 <= Len(BodyError(c).details)
          /\ BodyError(c).details[i] = "Results"
          /\ BodyError(c).details[i + 1] = "contain"
          /\ BodyError(c).details[i + 2] = "0"
          /\ BodyError(c).details[i + 3] = "rows"

\* The exception is the API error that carries exactly the body's fields.
RaisesBodyError(c) ==
    /\ outcome[c].kind = "raise"
    /\ outcome[c].exc = "APIError"
    /\ DOMAIN outcome[c].error = DOMAIN BodyError(c) \cap {"message", "code", "details", "hint"}
    /\ \A f \in DOMAIN outcome[c].error : outcome[c].error[f] = BodyError(c)[f]

----------------------------------------------------------------------------
(* Properties *)

\* C1: a chain executed in maybe-single mode whose response is outside 2xx and
\* carries a JSON error with details containing "Results contain 0 rows" does
\* not raise: execute() returns the envelope data = null, error = null, count = 0.
C1_ZeroRowsSuppressed ==
    \A c \in Chains :
        (MaybeSingleMode(c) /\ ZeroRowsResponse(c))
            => outcome[c] = [kind |-> "return", data |-> JNull, error |-> JNull,
                             count |-> <<0>>]

C1_Witness ==
    \E c \in Chains :
        /\ MaybeSingleMode(c) /\ ZeroRowsResponse(c)
        /\ Len(BodyError(c).details) > 4
        /\ outcome[c].kind = "return"

\* C2: a chain executed in maybe-single mode whose underlying execution fails
\* with an API error without the zero-rows details fails with that same API
\* error (same message, code, details and hint).
C2_OtherErrorsPropagate ==
    \A c \in Chains :
        (/\ MaybeSingleMode(c) /\ Answered(c) /\ ~Is2xx(c) /\ JsonObjectBody(c)
         /\ ~ZeroRowsResponse(c))
            => RaisesBodyError(c)

\* C3: outside maybe-single mode (single-row mode without the marker, or plain
\* mode) the zero-rows error response makes execute() fail with an API error;
\* it is never turned into an envelope.
C3_ZeroRowsErrorOutsideMaybeSingle ==
    \A c \in Chains :
        (ZeroRowsResponse(c) /\ ~MaybeSingleMode(c)) => RaisesBodyError(c)

C3_Witness ==
    \E c \in Chains :
        /\ ZeroRowsResponse(c) /\ ~MaybeSingleMode(c)
        /\ ACCEPT \in DOMAIN inflight[c].headers
        /\ inflight[c].headers[ACCEPT] = SINGLE_ACCEPT
        /\ outcome[c].kind = "raise"

\* C4: plain execution returns an envelope only for a status in 200..299; for
\* every other status with a JSON error body it raises the API error built
\* from that body.
C4_SuccessIffStatus2xx ==
    \A c \in Chains :
        (Answered(c) /\ strategy[c] = PLAIN)
            => /\ outcome[c].kind = "return" => Is2xx(c)
               /\ (~Is2xx(c) /\ JsonObjectBody(c)) => RaisesBodyError(c)

C4_Witness ==
    \E c \in Chains :
        /\ Answered(c) /\ strategy[c] = PLAIN
        /\ transport[c].status = 300
        /\ outcome[c].kind = "raise" /\ outcome[c].exc = "APIError"

\* C5: a response whose body is not valid JSON makes execute() fail with the
\* API error, never with another exception and never with an envelope.
C5_InvalidJsonIsAPIError ==
    \A c \in Chains :
        (Answered(c) /\ transport[c].body.syntax = "invalid")
            => (outcome[c].kind = "raise" /\ outcome[c].exc = "APIError")

\* C6: building and executing a chain leaves session.params as it was: empty
\* before the chain was built, empty after execute() has returned or raised.
C6_SessionParamsUntouched ==
    \A c \in Chains : Sent(c) => Len(sessionParams) = 0

C6_Witness ==
    \E c \in Chains :
        /\ Done(c) /\ outcome[c].kind = "return"
        /\ Len(inflight[c].params) = 3
        /\ Len(sessionParams) = 0

\* C7: the strategy picked at execution is the maybe-single one exactly when
\* Accept is the single-row value and the marker header is present with a value
\* equal to "true" ignoring case, and the ordinary one otherwise.
C7_StrategyFromHeaders ==
    \A c \in Chains :
        Sent(c) => /\ strategy[c] \in {MAYBE, PLAIN}
                   /\ strategy[c] = MAYBE <=> MaybeSingleMode(c)

C7_Witness ==
    \E c \in Chains :
        /\ Sent(c) /\ strategy[c] = PLAIN
        /\ ACCEPT \notin DOMAIN inflight[c].headers
        /\ MARKER \in DOMAIN inflight[c].headers
        /\ inflight[c].headers[MARKER] = <<"t", "r", "u", "e">>

\* C8: the headers handed to session.request never contain the marker header.
C8_MarkerNotForwarded ==
    \A c \in Chains : Sent(c) => MARKER \notin DOMAIN inflight[c].headers

\* C8, amended: the headers handed to session.request are the chain's headers
\* as they are, and under the maybe-single strategy they contain the marker
\* header.
C8_MarkerForwarded ==
    \A c \in Chains :
        Sent(c) => /\ inflight[c].headers = Pending(c).headers
                   /\ strategy[c] = MAYBE => MARKER \in DOMAIN inflight[c].headers

C8_Witness ==
    \E c \in Chains :
        /\ Done(c) /\ strategy[c] = MAYBE
        /\ inflight[c].headers[MARKER] = <<"T", "R", "U", "E">>

\* C9: when session.request fails, execute() of every strategy fails with that
\* same failure, having called session.request once.
C9_TransportFailurePropagates ==
    \A c \in Chains :
        (Done(c) /\ transport[c].kind = "failure")
            => /\ outcome[c].kind = "raise"
               /\ outcome[c].exc = transport[c].error
               /\ nSent[c] = 1

C9_Witness ==
    \E c \in Chains :
        /\ Done(c) /\ transport[c].kind = "failure"
        /\ strategy[c] = MAYBE
        /\ outcome[c].exc = "CancelledError"

\* C10: the request a chain sends carries the method, params, headers and body
\* that the calls on that chain made, whatever was done to the other chain.
C10_ChainsIndependent ==
    \A c \in Chains : Sent(c) => inflight[c] = own[c]

C10_Witness ==
    /\ \A c \in Chains : Sent(c)
    /\ inflight["c1"].method = "GET" /\ inflight["c2"].method = "GET"
    /\ Len(inflight["c1"].params) > Len(inflight["c2"].params)
    /\ MARKER \in DOMAIN inflight["c2"].headers
    /\ DOMAIN inflight["c1"].headers = {}

====
